---------------------------- MODULE Spec2Model ----------------------------
(***************************************************************************)
(* A model of the job-costing allocation code of src/functions.py:         *)
(* parse_locations, process_purchased_part, code_locations,                *)
(* apply_overrides and process_parts.                                      *)
(*                                                                         *)
(* Text (a location string, a location code) is a sequence of one-letter   *)
(* strings, so that splitting, prefixes and number parsing are computed    *)
(* the way the code computes them.  A data frame is a sequence of rows     *)
(* (records); a column is a field of the rows.                             *)
(***************************************************************************)
EXTENDS Integers, Sequences, FiniteSets, TLC

VARIABLES
    po,               \* the PO table (rows in input order)
    purchased,        \* the purchased-BOM table
    part_num,         \* argument of process_purchased_part
    pc,               \* position in the operation being run
    purchased_frame,  \* the PO queue of the pass (remaining quantities)
    lookup_frame,     \* the BOM rows of the part
    locations,        \* the parsed demand frame, or Unbound
    loc_idx,          \* next row of locations.iterrows()
    final_frame,      \* records emitted so far / returned
    loc_str,          \* argument of parse_locations
    parsed,           \* result of parse_locations
    machined,         \* the machined-BOM table
    po_dtype,         \* dtype of the Override columns of the PO table
    part_nums,        \* other_parts of process_parts
    part_idx,         \* next part of the loop of process_parts
    other_frames,     \* the frames collected by process_parts
    table,            \* the allocation table of process_parts
    loc_code,         \* argument of code_locations
    station,          \* result of code_locations
    second            \* outcome of a second call of process_parts, or NotRun

inputVars == <<po, purchased, machined, po_dtype>>
passVars == <<part_num, purchased_frame, lookup_frame, locations, loc_idx,
              final_frame>>
parseVars == <<loc_str, parsed>>
partsVars == <<part_nums, part_idx, other_frames, table>>
codeVars == <<loc_code, station>>
runVars == <<second>>

vars == <<inputVars, passVars, parseVars, partsVars, codeVars, runVars, pc>>

(***************************************************************************)
(* Bounds of the model.                                                    *)
(***************************************************************************)
MaxPO == 2        \* PO lines in the PO table
MaxDemands == 2   \* well-formed tokens in a generated location string
MaxQty == 3       \* largest quantity of a PO line or of a demand
MaxCode == 3      \* longest location code given to code_locations
MaxLen == 5       \* longest location string given to parse_locations alone

(***************************************************************************)
(* Absent values.  pandas holds them as NaN / None; each column type gets   *)
(* its own absent value here.                                              *)
(***************************************************************************)
NaNStr == "nan"          \* np.nan in a text column
NaNLoc == <<"nan">>      \* np.nan in the Location(s) column
NaNDate == 0             \* np.nan in the Date column
NoneNum == 0             \* None in the Num column
NaNQty == -1             \* NaN in the Qty / Unit Qty column

\* The local `locations`: never assigned, or bound to a demand frame.
Unbound == [bound |-> FALSE, rows |-> <<>>]
Bound(rows) == [bound |-> TRUE, rows |-> rows]

\* What a call of parse_locations does: it raises, or returns a frame.
Raised == [raised |-> TRUE, rows |-> <<>>]
Returned(rows) == [raised |-> FALSE, rows |-> rows]

Extra == <<"<", "E", "x", "t", "r", "a", ">">>
Stock == "<Stock>"

IsNaNQty(q) == q = NaNQty

(***************************************************************************)
(* Text helpers: str.replace(' ', ''), str.split(sep), list.reverse(),     *)
(* float(str).                                                             *)
(***************************************************************************)
Digits == {"0", "1", "2", "3", "4", "5", "6", "7", "8", "9"}

DigitVal(c) ==
    CASE c = "0" -> 0 [] c = "1" -> 1 [] c = "2" -> 2 [] c = "3" -> 3
      [] c = "4" -> 4 [] c = "5" -> 5 [] c = "6" -> 6 [] c = "7" -> 7
      [] c = "8" -> 8 [] c = "9" -> 9

DigitChar(d) ==
    CASE d = 0 -> "0" [] d = 1 -> "1" [] d = 2 -> "2" [] d = 3 -> "3"
      [] d = 4 -> "4" [] d = 5 -> "5" [] d = 6 -> "6" [] d = 7 -> "7"
      [] d = 8 -> "8" [] d = 9 -> "9"

RemoveSpaces(s) == SelectSeq(s, LAMBDA c : c # " ")

RECURSIVE Split(_, _)
Split(s, sep) ==
    IF \A i \in 1..Len(s) : s[i] # sep
    THEN <<s>>
    ELSE LET i == CHOOSE k \in 1..Len(s) :
                      s[k] = sep /\ \A j \in 1..(k - 1) : s[j] # sep
         IN  <<SubSeq(s, 1, i - 1)>> \o Split(SubSeq(s, i + 1, Len(s)), sep)

Reverse(s) == [i \in 1..Len(s) |-> s[Len(s) + 1 - i]]

\* A text float() accepts, within the letters of the model: a non-empty run
\* of decimal digits.
IsNumeric(t) == t # <<>> /\ \A i \in 1..Len(t) : t[i] \in Digits

RECURSIVE ParseFloat(_)
ParseFloat(t) ==
    IF Len(t) = 1 THEN DigitVal(t[1])
    ELSE 10 * ParseFloat(SubSeq(t, 1, Len(t) - 1)) + DigitVal(t[Len(t)])

(***************************************************************************)
(* parse_locations.  Each token is split on every 'x' and reversed; the    *)
(* list of lists becomes a two-column frame (Location, Qty).  pandas pads  *)
(* a short list with None when another list has two entries, and raises    *)
(* when the widest list has not exactly two; astype(float) turns None into *)
(* NaN and raises on text that is no number.                               *)
(***************************************************************************)
Tokens(s) == SelectSeq(Split(RemoveSpaces(s), ","), LAMBDA t : t # <<>>)

LocationList(s) ==
    LET toks == Tokens(s)
    IN  [i \in 1..Len(toks) |-> Reverse(Split(toks[i], "x"))]

Widths(ll) == {Len(ll[i]) : i \in 1..Len(ll)}

MaxWidth(ll) == CHOOSE w \in Widths(ll) : \A v \in Widths(ll) : v <= w

QtyCellOk(info) == Len(info) = 1 \/ IsNumeric(info[2])

DemandRow(info) ==
    [Location |-> info[1],
     Qty      |-> IF Len(info) = 1 THEN NaNQty ELSE ParseFloat(info[2])]

parse_locations(s) ==
    IF s = NaNLoc THEN Raised          \* float has no attribute 'replace'
    ELSE LET ll == LocationList(s)
         IN  IF ll = <<>> THEN Returned(<<>>)
             ELSE IF MaxWidth(ll) # 2 THEN Raised
             ELSE IF \E i \in 1..Len(ll) : ~QtyCellOk(ll[i]) THEN Raised
             ELSE Returned([i \in 1..Len(ll) |-> DemandRow(ll[i])])

(***************************************************************************)
(* process_purchased_part: the rows it builds.                             *)
(***************************************************************************)
StockRecord(lf, row) ==
    [Type |-> Stock, Date |-> NaNDate, Num |-> NoneNum, Source |-> NaNStr,
     Part |-> lf[1].Part, Desc |-> lf[1].Desc,
     Location |-> row.Location, UnitQty |-> row.Qty, UnitPrice |-> 0]

LineRecord(line, location, qty) ==
    [Type |-> line.Type, Date |-> line.Date, Num |-> line.Num,
     Source |-> line.Source, Part |-> line.Part, Desc |-> line.Desc,
     Location |-> location, UnitQty |-> qty, UnitPrice |-> line.UnitPrice]

\* A located record with the whole remaining quantity of the line (a
\* deliberately wrong variant).
LocatedRecordFullQty(front, row) == LineRecord(front, row.Location, front.UnitQty)

LocatedRecord(front, row) == LineRecord(front, row.Location, row.Qty)

ExtraRecord(line) == LineRecord(line, Extra, line.UnitQty)

UnattributedRecord(line) == LineRecord(line, NaNLoc, line.UnitQty)

(***************************************************************************)
(* sort_values(by=['Date', 'Num']): a stable sort, here by insertion.      *)
(***************************************************************************)
\* Mutant: the sort keys in the wrong order (Num, then Date).
KeyLeqNumFirst(a, b) == a.Num < b.Num \/ (a.Num = b.Num /\ a.Date <= b.Date)

KeyLeq(a, b) == a.Date < b.Date \/ (a.Date = b.Date /\ a.Num <= b.Num)

RECURSIVE InsertSorted(_, _)
InsertSorted(sorted, r) ==
    IF sorted = <<>> THEN <<r>>
    ELSE IF KeyLeq(sorted[Len(sorted)], r) THEN Append(sorted, r)
    ELSE Append(InsertSorted(SubSeq(sorted, 1, Len(sorted) - 1), r),
                sorted[Len(sorted)])

RECURSIVE SortByDateNum(_)
SortByDateNum(rows) ==
    IF rows = <<>> THEN <<>>
    ELSE InsertSorted(SortByDateNum(SubSeq(rows, 1, Len(rows) - 1)),
                      rows[Len(rows)])

FilterPart(frame, part) == SelectSeq(frame, LAMBDA r : r.Part = part)

\* Lines 173-181: the try block.  iloc[0] of an empty lookup frame and a
\* failing parse_locations both leave `locations` unassigned.
GetLocations(lf) ==
    IF lf = <<>> THEN Unbound
    ELSE IF parse_locations(lf[1].Locations).raised THEN Unbound
    ELSE Bound(parse_locations(lf[1].Locations).rows)

(***************************************************************************)
(* One iteration of the demand walk (lines 200-216) on the pair            *)
(* <<purchased_frame, final_frame>>.  A comparison with NaN is false.      *)
(***************************************************************************)
QtyEq(a, b) == ~IsNaNQty(a) /\ ~IsNaNQty(b) /\ a = b
QtyLt(a, b) == ~IsNaNQty(a) /\ ~IsNaNQty(b) /\ a < b

\* Mutant: the partial match forgets to subtract the demand from the line.
DecrementFrontForgotten(pf, qty) == pf

DecrementFront(pf, qty) == [pf EXCEPT ![1].UnitQty = @ - qty]

\* Mutant: a demand reached with an empty queue is passed over.
WalkDemandNoStock(pf, ff, lf, row) ==
    IF pf = <<>>
    THEN <<pf, ff>>
    ELSE IF QtyEq(row.Qty, pf[1].UnitQty)
    THEN <<Tail(pf), Append(ff, LocatedRecord(pf[1], row))>>
    ELSE IF QtyLt(row.Qty, pf[1].UnitQty)
    THEN <<DecrementFront(pf, row.Qty), Append(ff, LocatedRecord(pf[1], row))>>
    ELSE <<pf, ff>>

WalkDemand(pf, ff, lf, row) ==
    IF pf = <<>>
    THEN <<pf, Append(ff, StockRecord(lf, row))>>
    ELSE IF QtyEq(row.Qty, pf[1].UnitQty)
    THEN <<Tail(pf), Append(ff, LocatedRecord(pf[1], row))>>
    ELSE IF QtyLt(row.Qty, pf[1].UnitQty)
    THEN <<DecrementFront(pf, row.Qty), Append(ff, LocatedRecord(pf[1], row))>>
    ELSE <<pf, ff>>

\* Lines 217-222: one <Extra> row per line left in the queue.
\* Mutant: only the front line of the queue is reported as <Extra>.
ExtraRecordsFrontOnly(pf) == IF pf = <<>> THEN <<>> ELSE <<ExtraRecord(pf[1])>>

ExtraRecords(pf) == [i \in 1..Len(pf) |-> ExtraRecord(pf[i])]

\* Lines 186-190: one <Stock> row per demand.
StockRecords(lf, locs) == [i \in 1..Len(locs) |-> StockRecord(lf, locs[i])]

\* Lines 194-197: the PO lines with a NaN Location column.
UnattributedRecords(pf) == [i \in 1..Len(pf) |-> UnattributedRecord(pf[i])]

(***************************************************************************)
(* process_purchased_part as one call: what it does (raise or return) and  *)
(* the frame it returns.                                                   *)
(***************************************************************************)
RECURSIVE WalkAll(_, _, _, _)
WalkAll(pf, ff, lf, rows) ==
    IF rows = <<>> THEN <<pf, ff>>
    ELSE LET next == WalkDemand(pf, ff, lf, Head(rows))
         IN  WalkAll(next[1], next[2], lf, Tail(rows))

process_purchased_part(part, po_table, purchased_table) ==
    LET pf == SortByDateNum(FilterPart(po_table, part))
        lf == FilterPart(purchased_table, part)
        locs == GetLocations(lf)
    IN  IF pf = <<>>
        THEN IF ~locs.bound THEN Raised
             ELSE Returned(StockRecords(lf, locs.rows))
        ELSE IF lf = <<>> THEN Returned(UnattributedRecords(pf))
        ELSE IF ~locs.bound THEN Raised
        ELSE LET w == WalkAll(pf, <<>>, lf, locs.rows)
             IN  Returned(w[2] \o ExtraRecords(w[1]))

(***************************************************************************)
(* code_locations: the first-match chain of str.startswith tests.          *)
(***************************************************************************)
StartsWith(s, prefix) ==
    Len(prefix) <= Len(s) /\ SubSeq(s, 1, Len(prefix)) = prefix

\* The chain without its zero-padded prefixes (a deliberately wrong variant).
code_locationsNoPadded(location) ==
    IF location = NaNLoc THEN NaNStr
    ELSE IF StartsWith(location, <<"1">>) THEN "Main Frame"
    ELSE IF StartsWith(location, <<"2">>) THEN "Unwind/Punch Station"
    ELSE IF StartsWith(location, <<"3">>) THEN "Spout Station"
    ELSE IF StartsWith(location, <<"4">>) THEN "Side Seal Station"
    ELSE IF StartsWith(location, <<"5">>) THEN "Cross Seal Station"
    ELSE IF StartsWith(location, <<"6">>) THEN "Cap Station"
    ELSE IF StartsWith(location, <<"8">>) \/ StartsWith(location, <<"7">>)
    THEN "Delivery/Cutoff Station"
    ELSE NaNStr

code_locations(location) ==
    IF location = NaNLoc THEN NaNStr
    ELSE IF StartsWith(location, <<"0", "0", "1">>) THEN "Main Controls"
    ELSE IF StartsWith(location, <<"1">>) THEN "Main Frame"
    ELSE IF StartsWith(location, <<"2">>) \/ StartsWith(location, <<"0", "0", "2">>)
    THEN "Unwind/Punch Station"
    ELSE IF \/ StartsWith(location, <<"3">>)
            \/ StartsWith(location, <<"0", "0", "3">>)
            \/ StartsWith(location, <<"0", "0", "7">>)
    THEN "Spout Station"
    ELSE IF StartsWith(location, <<"4">>) \/ StartsWith(location, <<"0", "0", "4">>)
    THEN "Side Seal Station"
    ELSE IF StartsWith(location, <<"5">>) \/ StartsWith(location, <<"0", "0", "5">>)
    THEN "Cross Seal Station"
    ELSE IF \/ StartsWith(location, <<"6">>)
            \/ StartsWith(location, <<"0", "0", "6">>)
            \/ StartsWith(location, <<"0", "0", "8">>)
    THEN "Cap Station"
    ELSE IF \/ StartsWith(location, <<"8">>)
            \/ StartsWith(location, <<"7">>)
            \/ StartsWith(location, <<"0", "0", "9">>)
    THEN "Delivery/Cutoff Station"
    ELSE NaNStr

(***************************************************************************)
(* apply_overrides.  The left merge yields, per record with a Num, one row *)
(* per PO line with an Override 1 and the same (Num, Part Number), or one  *)
(* row with empty overrides when there is none.  `override is not np.nan`  *)
(* tests for the np.nan object: a cell of a text (object) column that the  *)
(* merge left empty is that object, while a NaN read from a float64 column *)
(* (a column of the PO table without any text) is a fresh float, and then  *)
(* replaces the category.                                                  *)
(***************************************************************************)
HasOverride1(line) == line.Ov1 # NaNStr

OverrideLines(po_table) == SelectSeq(po_table, HasOverride1)

HasNum(r) == r.Num # NoneNum

SameKey(r, line) == line.Num = r.Num /\ line.Part = r.Part

Categorized(r, c1, c2) ==
    [Type |-> r.Type, Date |-> r.Date, Num |-> r.Num, Source |-> r.Source,
     Part |-> r.Part, Desc |-> r.Desc, Location |-> r.Location,
     UnitQty |-> r.UnitQty, UnitPrice |-> r.UnitPrice,
     Category1 |-> c1, Category2 |-> c2]

IsNotNpNan(cell, dtype) == cell # NaNStr \/ dtype = "float64"

Substitute(override, category, dtype) ==
    IF IsNotNpNan(override, dtype) THEN override ELSE category

MergedRow(r, ov1, ov2, dtypes) ==
    Categorized(r, Substitute(ov1, r.Category1, dtypes.Ov1),
                   Substitute(ov2, r.Category2, dtypes.Ov2))

MergeRows(r, lines, dtypes) ==
    LET m == SelectSeq(lines, LAMBDA line : SameKey(r, line))
    IN  IF m = <<>> THEN <<MergedRow(r, NaNStr, NaNStr, dtypes)>>
        ELSE [i \in 1..Len(m) |-> MergedRow(r, m[i].Ov1, m[i].Ov2, dtypes)]

RECURSIVE MergeAll(_, _, _)
MergeAll(rows, lines, dtypes) ==
    IF rows = <<>> THEN <<>>
    ELSE MergeRows(Head(rows), lines, dtypes) \o MergeAll(Tail(rows), lines, dtypes)

apply_overrides(frame, po_table, dtypes) ==
    MergeAll(SelectSeq(frame, HasNum), OverrideLines(po_table), dtypes)

(***************************************************************************)
(* get_unique_parts, find_machined_parts and the parts process_parts       *)
(* walks.  np.unique sorts the part numbers as text.                       *)
(***************************************************************************)
MachinedPart == "GF12.001.01"

\* The part numbers of the model in ascending text order ('G' < 'P').
PartOrder == <<MachinedPart, "P1", "P2">>

PartText(p) ==
    CASE p = "P1" -> <<"P", "1">>
      [] p = "P2" -> <<"P", "2">>
      [] p = MachinedPart ->
             <<"G", "F", "1", "2", ".", "0", "0", "1", ".", "0", "1">>
      [] OTHER -> <<>>

UpperLetters ==
    {"A", "B", "C", "D", "E", "F", "G", "H", "I", "J", "K", "L", "M", "N",
     "O", "P", "Q", "R", "S", "T", "U", "V", "W", "X", "Y", "Z"}

\* ^GF12\.\d{3}\.\d{2}(\.[A-Z])?$
MatchesMachinedPattern(t) ==
    /\ Len(t) \in {11, 13}
    /\ SubSeq(t, 1, 5) = <<"G", "F", "1", "2", ".">>
    /\ \A i \in 6..8 : t[i] \in Digits
    /\ t[9] = "."
    /\ \A i \in 10..11 : t[i] \in Digits
    /\ Len(t) = 13 => (t[12] = "." /\ t[13] \in UpperLetters)

Column(frame) == {frame[i].Part : i \in 1..Len(frame)}

get_unique_parts(po_table, machined_table, purchased_table) ==
    LET all == (Column(po_table) \cup Column(machined_table)
                    \cup Column(purchased_table)) \ {NaNStr}
    IN  SelectSeq(PartOrder, LAMBDA p : p \in all)

find_machined_parts(parts) ==
    SelectSeq(parts, LAMBDA p : MatchesMachinedPattern(PartText(p)))

IsIn(p, parts) == \E i \in 1..Len(parts) : parts[i] = p

OtherParts(parts) ==
    SelectSeq(parts, LAMBDA p : ~IsIn(p, find_machined_parts(parts)))

RECURSIVE Concat(_)
Concat(frames) ==
    IF frames = <<>> THEN <<>> ELSE Head(frames) \o Concat(Tail(frames))

\* Lines 248-249: the derived categories.
WithCategories(frame) ==
    [i \in 1..Len(frame) |->
        Categorized(frame[i], code_locations(frame[i].Location), NaNStr)]

(***************************************************************************)
(* The inputs the model draws from.                                        *)
(***************************************************************************)
TargetPart == "P1"
OtherPart == "P2"
PartNumbers == {TargetPart, OtherPart}

\* (Date, Num) pairs: two dates, and two PO numbers on the first date.
DateNums == {<<1, 1>>, <<1, 2>>, <<2, 1>>}

Vendors == <<"V1", "V2", "V3", "V4">>

\* Location codes, one per position of a generated location string.
LocCodes == << <<"1">>, <<"2">>, <<"0", "0", "1">>, <<"7">> >>

PORow(i, part, dn, qty, ov1, ov2) ==
    [Type |-> "Purchase Order", Date |-> dn[1], Num |-> dn[2],
     Source |-> Vendors[i], Part |-> part, Desc |-> "po item",
     UnitQty |-> qty, UnitPrice |-> 10 * i, Ov1 |-> ov1, Ov2 |-> ov2]

\* The i-th PO line of an allocation pass: a line of the part, or one line
\* of another part (which the pass must filter out).
PORowsAt(i) ==
    {PORow(i, TargetPart, dn, q, NaNStr, NaNStr) : dn \in DateNums, q \in 1..MaxQty}
        \cup {PORow(i, OtherPart, <<1, 1>>, 1, NaNStr, NaNStr)}

RECURSIVE POTablesOfLen(_)
POTablesOfLen(n) ==
    IF n = 0 THEN {<<>>}
    ELSE {Append(t, r) : t \in POTablesOfLen(n - 1), r \in PORowsAt(n)}

POTables == UNION {POTablesOfLen(n) : n \in 0..MaxPO}

RECURSIVE ToDigits(_)
ToDigits(n) ==
    IF n < 10 THEN <<DigitChar(n)>>
    ELSE Append(ToDigits(n \div 10), DigitChar(n % 10))

\* The text "<qty>x<code>" of the demands, joined by commas.
RECURSIVE FormatLocations(_)
FormatLocations(qtys) ==
    IF qtys = <<>> THEN <<>>
    ELSE LET n == Len(qtys)
             tok == ToDigits(qtys[n]) \o <<"x">> \o LocCodes[n]
         IN  IF n = 1 THEN tok
             ELSE FormatLocations(SubSeq(qtys, 1, n - 1)) \o <<",">> \o tok

QtySeqs == UNION {[1..n -> 1..MaxQty] : n \in 1..MaxDemands}

\* The Locations cell of a BOM row: an empty cell (NaN), an empty text,
\* texts parse_locations fails on, a text with a token without 'x' beside a
\* well-formed one, and well-formed texts.
LocationCells ==
    {NaNLoc, <<>>, <<"a", "b">>, <<"1", "x", "1", "x", "1">>,
     <<"7", ",", "2", "x", "1">>}
        \cup {FormatLocations(q) : q \in QtySeqs}

BOMRow(part, cell) == [Part |-> part, Desc |-> "bom item", Locations |-> cell]

PurchasedTables ==
    {<<>>, <<BOMRow(OtherPart, <<"1", "x", "1">>)>>}
        \cup {<<BOMRow(TargetPart, c)>> : c \in LocationCells}

\* The inputs of the scenarios the specification lists: no PO line or one
\* PO line of quantity 5 and price 10, against the location texts of the
\* scenarios (and the same demands written quantity first).
ScenarioPOs == {<<>>, <<PORow(1, TargetPart, <<1, 1>>, 5, NaNStr, NaNStr)>>}

ScenarioCells ==
    {<<"1", "x", "2", ",", "2", "x", "3">>, <<"1", "x", "5">>, <<"1", "x", "2">>,
     <<"2", "x", "1">>, <<"5", "x", "1">>, <<"2", "x", "1", ",", "3", "x", "2">>}

ScenarioPurchased == {<<BOMRow(TargetPart, c)>> : c \in ScenarioCells}

Alphabet == {"1", "2", "x", ",", " ", "a"}

LocationStrings == UNION {[1..n -> Alphabet] : n \in 0..MaxLen}

(***************************************************************************)
(* Initial values of the variables an operation does not use.              *)
(***************************************************************************)
PassIdle ==
    /\ part_num = TargetPart
    /\ purchased_frame = <<>>
    /\ lookup_frame = <<>>
    /\ locations = Unbound
    /\ loc_idx = 1
    /\ final_frame = <<>>

ParseIdle == loc_str = <<>> /\ parsed = Returned(<<>>)

PartsIdle ==
    /\ part_nums = <<>>
    /\ part_idx = 1
    /\ other_frames = <<>>
    /\ table = <<>>

CodeIdle == loc_code = <<>> /\ station = NaNStr

NotRun == [done |-> FALSE, raised |-> FALSE, rows |-> <<>>]

RunIdle == second = NotRun

Float64Dtypes == [Ov1 |-> "float64", Ov2 |-> "float64"]

(***************************************************************************)
(* Spec: one call process_purchased_part(part_num, po, purchased).         *)
(***************************************************************************)
Init ==
    /\ \/ po \in POTables /\ purchased \in PurchasedTables
       \/ po \in ScenarioPOs /\ purchased \in ScenarioPurchased
    /\ machined = <<>>
    /\ po_dtype = Float64Dtypes
    /\ pc = "start"
    /\ PassIdle
    /\ ParseIdle
    /\ PartsIdle
    /\ CodeIdle
    /\ RunIdle

\* Lines 165-181: filter, sort, reset the indexes, try to parse.
Filter ==
    /\ UNCHANGED <<codeVars, runVars>>
    /\ pc = "start"
    /\ purchased_frame' = SortByDateNum(FilterPart(po, part_num))
    /\ lookup_frame' = FilterPart(purchased, part_num)
    /\ locations' = GetLocations(FilterPart(purchased, part_num))
    /\ pc' = "filtered"
    /\ UNCHANGED <<inputVars, parseVars, partsVars, part_num, loc_idx, final_frame>>

\* Lines 183-190: no PO line.  Iterating the unassigned `locations` raises.
NoPO ==
    /\ UNCHANGED <<codeVars, runVars>>
    /\ pc = "filtered"
    /\ purchased_frame = <<>>
    /\ IF ~locations.bound
       THEN pc' = "raised" /\ UNCHANGED final_frame
       ELSE /\ pc' = "returned"
            /\ final_frame' = StockRecords(lookup_frame, locations.rows)
    /\ UNCHANGED <<inputVars, parseVars, partsVars, part_num, purchased_frame,
                   lookup_frame, locations, loc_idx>>

\* Lines 191-197: PO lines, no BOM row.
NoBOM ==
    /\ UNCHANGED <<codeVars, runVars>>
    /\ pc = "filtered"
    /\ purchased_frame # <<>>
    /\ lookup_frame = <<>>
    /\ pc' = "returned"
    /\ final_frame' = UnattributedRecords(purchased_frame)
    /\ UNCHANGED <<inputVars, parseVars, partsVars, part_num, purchased_frame,
                   lookup_frame, locations, loc_idx>>

\* Lines 199-200: entering the demand walk; iterating the unassigned
\* `locations` raises.
Match ==
    /\ UNCHANGED <<codeVars, runVars>>
    /\ pc = "filtered"
    /\ purchased_frame # <<>>
    /\ lookup_frame # <<>>
    /\ pc' = IF ~locations.bound THEN "raised" ELSE "walk"
    /\ final_frame' = <<>>
    /\ loc_idx' = 1
    /\ UNCHANGED <<inputVars, parseVars, partsVars, part_num, purchased_frame,
                   lookup_frame, locations>>

\* Lines 200-216: one iteration of the loop over the demands.
Walk ==
    /\ UNCHANGED <<codeVars, runVars>>
    /\ pc = "walk"
    /\ loc_idx <= Len(locations.rows)
    /\ LET next == WalkDemand(purchased_frame, final_frame, lookup_frame,
                              locations.rows[loc_idx])
       IN  /\ purchased_frame' = next[1]
           /\ final_frame' = next[2]
    /\ loc_idx' = loc_idx + 1
    /\ UNCHANGED <<inputVars, parseVars, partsVars, part_num, pc, lookup_frame,
                   locations>>

\* Lines 217-227: the lines left in the queue, and the return.
Extras ==
    /\ UNCHANGED <<codeVars, runVars>>
    /\ pc = "walk"
    /\ loc_idx > Len(locations.rows)
    /\ final_frame' = final_frame \o ExtraRecords(purchased_frame)
    /\ pc' = "returned"
    /\ UNCHANGED <<inputVars, parseVars, partsVars, part_num, purchased_frame,
                   lookup_frame, locations, loc_idx>>

Next == Filter \/ NoPO \/ NoBOM \/ Match \/ Walk \/ Extras

Spec == Init /\ [][Next]_vars

(***************************************************************************)
(* SpecParse: one call parse_locations(loc_str).                           *)
(***************************************************************************)
InitParse ==
    /\ loc_str \in LocationStrings \cup ScenarioCells
    /\ parsed = Returned(<<>>)
    /\ pc = "parse"
    /\ po = <<>>
    /\ purchased = <<>>
    /\ machined = <<>>
    /\ po_dtype = Float64Dtypes
    /\ PassIdle
    /\ PartsIdle
    /\ CodeIdle
    /\ RunIdle

Parse ==
    /\ UNCHANGED <<codeVars, runVars>>
    /\ pc = "parse"
    /\ parsed' = parse_locations(loc_str)
    /\ pc' = "parsed"
    /\ UNCHANGED <<inputVars, passVars, partsVars, loc_str>>

NextParse == Parse

SpecParse == InitParse /\ [][NextParse]_vars

(***************************************************************************)
(* SpecParts: one call process_parts(po, machined, purchased).             *)
(***************************************************************************)
Nums == {1, 2}

Overrides1 == {NaNStr, "Override A"}
Overrides2 == {NaNStr, "Override B"}

\* The i-th PO line of a run: a line of a purchased part with or without
\* overrides, or a line of a machined part.
PartsRowsAt(i) ==
    {PORow(i, part, <<1, n>>, 2, o1, o2) :
        part \in PartNumbers, n \in Nums, o1 \in Overrides1, o2 \in Overrides2}
        \cup {PORow(i, MachinedPart, <<1, 1>>, 2, NaNStr, NaNStr)}

RECURSIVE PartsTablesOfLen(_)
PartsTablesOfLen(n) ==
    IF n = 0 THEN {<<>>}
    ELSE {Append(t, r) : t \in PartsTablesOfLen(n - 1), r \in PartsRowsAt(n)}

\* A run has at least one PO line.
PartsTables == UNION {PartsTablesOfLen(n) : n \in 1..MaxPO}

\* Locations cells of a run: empty, one demand the PO line covers, one
\* demand larger than any PO line.
PartsCells == {NaNLoc, <<"1", "x", "1">>, <<"3", "x", "2">>}

BOMOptions(part) == {<<>>} \cup {<<BOMRow(part, c)>> : c \in PartsCells}

\* The BOM of a run: any cell for the first part, no row or one covered
\* demand for the second.
PartsPurchased ==
    {a \o b : a \in BOMOptions(TargetPart),
              b \in {<<>>, <<BOMRow(OtherPart, <<"1", "x", "1">>)>>}}

MachinedTables == {<<[Part |-> MachinedPart]>>, <<[Part |-> OtherPart]>>}

\* pandas reads a column without any text as float64, and a column holding
\* text as object; a caller can also hand over an all-empty object column.
DtypesOf(po_table) ==
    {d \in [Ov1 : {"object", "float64"}, Ov2 : {"object", "float64"}] :
        /\ (\E i \in 1..Len(po_table) : po_table[i].Ov1 # NaNStr) => d.Ov1 = "object"
        /\ (\E i \in 1..Len(po_table) : po_table[i].Ov2 # NaNStr) => d.Ov2 = "object"}

InitParts ==
    /\ po \in PartsTables
    /\ purchased \in PartsPurchased
    /\ machined \in MachinedTables
    /\ po_dtype \in DtypesOf(po)
    /\ pc = "pp_start"
    /\ PassIdle
    /\ ParseIdle
    /\ PartsIdle
    /\ CodeIdle
    /\ RunIdle

\* Lines 238-244.
GetParts ==
    /\ UNCHANGED <<codeVars, runVars>>
    /\ pc = "pp_start"
    /\ part_nums' = OtherParts(get_unique_parts(po, machined, purchased))
    /\ part_idx' = 1
    /\ other_frames' = <<>>
    /\ pc' = "pp_loop"
    /\ UNCHANGED <<inputVars, passVars, parseVars, table>>

\* Lines 245-246: one part; an exception of the pass leaves process_parts.
ProcessPart ==
    /\ UNCHANGED <<codeVars, runVars>>
    /\ pc = "pp_loop"
    /\ part_idx <= Len(part_nums)
    /\ LET r == process_purchased_part(part_nums[part_idx], po, purchased)
       IN  IF r.raised
           THEN pc' = "pp_raised" /\ UNCHANGED <<part_idx, other_frames>>
           ELSE /\ other_frames' = Append(other_frames, r.rows)
                /\ part_idx' = part_idx + 1
                /\ pc' = "pp_loop"
    /\ UNCHANGED <<inputVars, passVars, parseVars, part_nums, table>>

\* Lines 247-249.  pd.concat raises on an empty list.  A NaN Location
\* comes from an unattributed frame, whose Location column is float64:
\*  - when every collected frame is such a frame the column stays float64,
\*    apply hands code_locations a new float each time, `is np.nan` fails
\*    and startswith raises;
\*  - when it is concatenated with a frame of another kind the column is
\*    an object column, and it depends on the pandas build whether the NaN
\*    cells are the np.nan object (code_locations returns np.nan) or new
\*    floats (startswith raises): both outcomes are allowed.
HasNaNLocation(frame) == \E i \in 1..Len(frame) : frame[i].Location = NaNLoc

IsUnattributedFrame(frame) ==
    frame # <<>> /\ \A i \in 1..Len(frame) : frame[i].Location = NaNLoc

CategorizeRaises ==
    /\ \/ other_frames = <<>>
       \/ HasNaNLocation(Concat(other_frames))
    /\ pc' = "pp_raised"
    /\ UNCHANGED table

CategorizeReturns ==
    /\ other_frames # <<>>
    /\ \E k \in 1..Len(other_frames) : ~IsUnattributedFrame(other_frames[k])
    /\ pc' = "pp_override"
    /\ table' = WithCategories(Concat(other_frames))

Categorize ==
    /\ UNCHANGED <<codeVars, runVars>>
    /\ pc = "pp_loop"
    /\ part_idx > Len(part_nums)
    /\ CategorizeRaises \/ CategorizeReturns
    /\ UNCHANGED <<inputVars, passVars, parseVars, part_nums, part_idx,
                   other_frames>>

\* Line 250.
Override ==
    /\ UNCHANGED <<codeVars, runVars>>
    /\ pc = "pp_override"
    /\ table' = apply_overrides(table, po, po_dtype)
    /\ pc' = "pp_done"
    /\ UNCHANGED <<inputVars, passVars, parseVars, part_nums, part_idx,
                   other_frames>>

\* Lines 237-252 as one call: the outcomes process_parts can have on these
\* inputs (one, or two where the pandas build decides at lines 247-248).
process_parts(po_table, machined_table, purchased_table, dtypes) ==
    LET parts == OtherParts(get_unique_parts(po_table, machined_table,
                                             purchased_table))
        results == [i \in 1..Len(parts) |->
                       process_purchased_part(parts[i], po_table, purchased_table)]
        frames == [i \in 1..Len(parts) |-> results[i].rows]
    IN  IF \E i \in 1..Len(parts) : results[i].raised THEN {Raised}
        ELSE (IF frames = <<>> \/ HasNaNLocation(Concat(frames))
              THEN {Raised} ELSE {})
             \cup
             (IF frames # <<>> /\ \E k \in 1..Len(frames) : ~IsUnattributedFrame(frames[k])
              THEN {Returned(apply_overrides(WithCategories(Concat(frames)),
                                             po_table, dtypes))}
              ELSE {})

\* A second call process_parts(po, machined, purchased) on the same tables.
Rerun ==
    /\ pc \in {"pp_done", "pp_raised"}
    /\ ~second.done
    /\ \E out \in process_parts(po, machined, purchased, po_dtype) :
           second' = [done |-> TRUE, raised |-> out.raised, rows |-> out.rows]
    /\ UNCHANGED <<inputVars, passVars, parseVars, partsVars, codeVars, pc>>

NextParts == GetParts \/ ProcessPart \/ Categorize \/ Override \/ Rerun

SpecParts == InitParts /\ [][NextParts]_vars

(***************************************************************************)
(* SpecCode: one call code_locations(loc_code).                            *)
(***************************************************************************)
CodeAlphabet == Digits \cup {"A"}

\* Location codes: every text up to MaxCode characters, the <Extra> marker
\* of a surplus record, and np.nan.
LocationCodes ==
    UNION {[1..n -> CodeAlphabet] : n \in 0..MaxCode} \cup {Extra, NaNLoc}

InitCode ==
    /\ loc_code \in LocationCodes
    /\ station = NaNStr
    /\ pc = "code"
    /\ po = <<>>
    /\ purchased = <<>>
    /\ machined = <<>>
    /\ po_dtype = Float64Dtypes
    /\ PassIdle
    /\ ParseIdle
    /\ PartsIdle
    /\ RunIdle

Code ==
    /\ pc = "code"
    /\ station' = code_locations(loc_code)
    /\ pc' = "coded"
    /\ UNCHANGED <<inputVars, passVars, parseVars, partsVars, runVars, loc_code>>

NextCode == Code

SpecCode == InitCode /\ [][NextCode]_vars

(***************************************************************************)
(* Properties of the allocation pass (Spec).                               *)
(***************************************************************************)
RECURSIVE SumSeq(_)
SumSeq(q) == IF q = <<>> THEN 0 ELSE Head(q) + SumSeq(Tail(q))

\* Sums skip NaN, as pandas' sum does.
SumQty(frame) ==
    SumSeq([i \in 1..Len(frame) |->
               IF IsNaNQty(frame[i].UnitQty) THEN 0 ELSE frame[i].UnitQty])

SumDemand(rows) ==
    SumSeq([i \in 1..Len(rows) |-> IF IsNaNQty(rows[i].Qty) THEN 0 ELSE rows[i].Qty])

InputLines == FilterPart(po, part_num)
SortedInputLines == SortByDateNum(InputLines)

IsStock(r) == r.Type = Stock
IsExtra(r) == r.Location = Extra
IsLocated(r) == r.Type # Stock /\ r.Location # Extra /\ r.Location # NaNLoc

StockOf(frame) == SelectSeq(frame, IsStock)
ExtraOf(frame) == SelectSeq(frame, IsExtra)
LocatedOf(frame) == SelectSeq(frame, IsLocated)

AtLocation(frame, loc) == SelectSeq(frame, LAMBDA r : r.Location = loc)
DemandsAt(rows, loc) == SelectSeq(rows, LAMBDA d : d.Location = loc)

\* C1: when the pass returns, the unit quantities of all emitted records
\* sum to the unit quantities of the input PO lines of the part plus the
\* quantities emitted as <Stock>.
C1_QuantityConservation ==
    pc = "returned" =>
        SumQty(final_frame) = SumQty(InputLines) + SumQty(StockOf(final_frame))

\* C1 witness: a returned pass whose queue ran out mid-walk: located records
\* followed by a <Stock> record.
C1_Witness ==
    /\ pc = "returned"
    /\ LocatedOf(final_frame) # <<>>
    /\ StockOf(final_frame) # <<>>

\* C2 (as claimed): with PO lines and demands both present, the records of
\* every demanded location sum to the quantity demanded there.
C2_NoDemandDropped ==
    (pc = "returned" /\ InputLines # <<>> /\ locations.bound) =>
        \A i \in 1..Len(locations.rows) :
            ~IsNaNQty(locations.rows[i].Qty) =>
                SumQty(AtLocation(final_frame, locations.rows[i].Location))
                    = SumDemand(DemandsAt(locations.rows, locations.rows[i].Location))

NoBOMDemand == lookup_frame = <<>> \/ ~locations.bound \/ locations.rows = <<>>

\* C3 (as claimed): with PO lines and no BOM demand (no BOM row, an empty or
\* an unparseable location text) the pass returns exactly the PO lines, in
\* queue order, with a null location.
C3_UnattributedWhenNoDemand ==
    (pc \in {"returned", "raised"} /\ InputLines # <<>> /\ NoBOMDemand) =>
        /\ pc = "returned"
        /\ final_frame = UnattributedRecords(SortedInputLines)

\* C4 (as claimed): the allocation pass of a part that has PO lines or a
\* BOM row never raises, whatever the combination.
C4_PassNeverRaises ==
    (InputLines # <<>> \/ FilterPart(purchased, part_num) # <<>>) => pc # "raised"

\* The record the claims expect for a demand filled from stock.
ExpectedStock(d) ==
    [Type |-> Stock, Date |-> NaNDate, Num |-> NoneNum, Source |-> NaNStr,
     Part |-> part_num, Desc |-> lookup_frame[1].Desc,
     Location |-> d.Location, UnitQty |-> d.Qty, UnitPrice |-> 0]

\* C7: a demand reached while the queue is empty emits exactly one <Stock>
\* record with its location and quantity, price 0 and no date / PO number
\* (in the walk, and for a part without any PO line); a demand reached
\* while a line is queued emits no <Stock> record.
C7_StockExactlyWhenQueueEmpty ==
    [][/\ (pc = "walk" /\ loc_idx' = loc_idx + 1) =>
            IF purchased_frame = <<>>
            THEN final_frame' =
                     Append(final_frame, ExpectedStock(locations.rows[loc_idx]))
            ELSE StockOf(final_frame') = StockOf(final_frame)
       /\ (pc = "filtered" /\ pc' = "returned" /\ purchased_frame = <<>>) =>
            final_frame' = [i \in 1..Len(locations.rows) |->
                               ExpectedStock(locations.rows[i])]
      ]_vars

\* C7 witness: in the walk, the queue ran out after a located record and
\* the next demand was filled from stock.
C7_Witness ==
    /\ pc = "walk"
    /\ purchased_frame = <<>>
    /\ LocatedOf(final_frame) # <<>>
    /\ StockOf(final_frame) # <<>>
    /\ final_frame[Len(final_frame)].UnitPrice = 0

LineOf(source) ==
    CHOOSE l \in {InputLines[i] : i \in 1..Len(InputLines)} : l.Source = source

LocatedFrom(frame, source) ==
    SelectSeq(frame, LAMBDA r : IsLocated(r) /\ r.Source = source)

ExpectedExtra(line) ==
    [Type |-> line.Type, Date |-> line.Date, Num |-> line.Num,
     Source |-> line.Source, Part |-> line.Part, Desc |-> line.Desc,
     Location |-> Extra, UnitQty |-> line.UnitQty, UnitPrice |-> line.UnitPrice]

ScenarioD ==
    /\ po = <<PORow(1, TargetPart, <<1, 1>>, 5, NaNStr, NaNStr)>>
    /\ purchased = <<BOMRow(TargetPart, <<"2", "x", "1">>)>>

\* C8: after the walk every line still queued emits exactly one <Extra>
\* record, after the walk's records and in queue order, with the line's
\* date / PO number / vendor and price and its remaining quantity, which is
\* the line's quantity minus what was attributed to locations; the demand
\* (location 1, quantity 2) against one line of quantity 5 and price 10
\* gives (1, 2, 10) and then one <Extra> record (3, 10).
C8_SurplusAsExtra ==
    (pc = "returned" /\ InputLines # <<>> /\ lookup_frame # <<>>) =>
        LET ex == ExtraOf(final_frame)
            n == Len(final_frame)
        IN  /\ Len(ex) = Len(purchased_frame)
            /\ SubSeq(final_frame, n - Len(ex) + 1, n) = ex
            /\ \A i \in 1..Len(ex) :
                   /\ ex[i] = ExpectedExtra(purchased_frame[i])
                   /\ ex[i].UnitPrice = LineOf(ex[i].Source).UnitPrice
                   /\ ex[i].UnitQty = LineOf(ex[i].Source).UnitQty
                          - SumQty(LocatedFrom(final_frame, ex[i].Source))
            /\ ScenarioD =>
                   /\ Len(final_frame) = 2
                   /\ final_frame[1].Location = <<"1">>
                   /\ final_frame[1].UnitQty = 2
                   /\ final_frame[1].UnitPrice = 10
                   /\ final_frame[2].Location = Extra
                   /\ final_frame[2].UnitQty = 3
                   /\ final_frame[2].UnitPrice = 10

\* C8 witness: a returned pass with an <Extra> record for a line that the
\* walk had partly attributed, and a second <Extra> record after it.
C8_Witness ==
    /\ pc = "returned"
    /\ Len(ExtraOf(final_frame)) = 2
    /\ ExtraOf(final_frame)[1].UnitQty
           < LineOf(ExtraOf(final_frame)[1].Source).UnitQty

\* The (date, po_number) order, stated apart from the code's sort.
DateNumLeq(a, b) == a.Date < b.Date \/ (a.Date = b.Date /\ a.Num <= b.Num)
DateNumLess(a, b) == a.Date < b.Date \/ (a.Date = b.Date /\ a.Num < b.Num)

Linked(frame) == SelectSeq(frame, HasNum)
Demanded(frame) == SelectSeq(frame, LAMBDA r : IsLocated(r) \/ IsStock(r))

DemandIndex(loc) ==
    CHOOSE i \in 1..Len(locations.rows) : locations.rows[i].Location = loc

\* C9: in the walk and at the return, the PO-linked records come in
\* non-decreasing (date, po_number); a line has records at locations only
\* when every line with a smaller (date, po_number) is fully attributed;
\* and the located / <Stock> records name the demanded locations in the
\* order of the location text.
C9_Ordering ==
    (pc \in {"walk", "returned"}) =>
        /\ \A i, j \in 1..Len(Linked(final_frame)) :
               i < j => DateNumLeq(Linked(final_frame)[i], Linked(final_frame)[j])
        /\ \A i \in 1..Len(final_frame) :
               IsLocated(final_frame[i]) =>
                   \A k \in 1..Len(InputLines) :
                       DateNumLess(InputLines[k], final_frame[i]) =>
                           SumQty(LocatedFrom(final_frame, InputLines[k].Source))
                               = InputLines[k].UnitQty
        /\ \A i, j \in 1..Len(Demanded(final_frame)) :
               i < j => DemandIndex(Demanded(final_frame)[i].Location)
                            < DemandIndex(Demanded(final_frame)[j].Location)

\* C9 witness: two lines given newest first, both attributed to locations.
C9_Witness ==
    /\ pc = "returned"
    /\ Len(InputLines) = 2
    /\ DateNumLess(InputLines[2], InputLines[1])
    /\ Len(LocatedOf(final_frame)) = 2
    /\ LocatedOf(final_frame)[1].Source = InputLines[2].Source
    /\ LocatedOf(final_frame)[2].Source = InputLines[1].Source

(***************************************************************************)
(* Properties of parse_locations (SpecParse).                              *)
(***************************************************************************)
TokenParts(s) == [i \in 1..Len(Tokens(s)) |-> Split(Tokens(s)[i], "x")]

\* Tokens of the form <location>x<quantity>: one 'x', a location before it
\* and a number after it.
ClaimedForm(s) ==
    \A i \in 1..Len(TokenParts(s)) :
        /\ Len(TokenParts(s)[i]) = 2
        /\ TokenParts(s)[i][1] # <<>>
        /\ IsNumeric(TokenParts(s)[i][2])

\* C6 (as claimed): for tokens <location>x<quantity> the parser returns one
\* demand per token, in the order written, with the location taken from
\* before the 'x' and the quantity from after it.
C6_LocationThenQuantity ==
    (pc = "parsed" /\ ClaimedForm(loc_str)) =>
        /\ ~parsed.raised
        /\ Len(parsed.rows) = Len(TokenParts(loc_str))
        /\ \A i \in 1..Len(TokenParts(loc_str)) :
               /\ parsed.rows[i].Location = TokenParts(loc_str)[i][1]
               /\ parsed.rows[i].Qty = ParseFloat(TokenParts(loc_str)[i][2])

(***************************************************************************)
(* Properties of process_parts and apply_overrides (SpecParts).            *)
(***************************************************************************)
\* The table handed to apply_overrides (lines 247-249).
Derived == WithCategories(Concat(other_frames))

InTable(r) == \E j \in 1..Len(table) : table[j] = r

\* C5 (as claimed): every record without a PO number is still in the table
\* apply_overrides returns, with its derived categories.
C5_StockRecordsKept ==
    pc = "pp_done" =>
        \A i \in 1..Len(Derived) : ~HasNum(Derived[i]) => InTable(Derived[i])

\* The rows of a frame that are record r up to its categories.
SameButCategories(t, r) ==
    t = Categorized(r, t.Category1, t.Category2)

Overrides1For(r) ==
    {po[k].Ov1 : k \in {k \in 1..Len(po) : SameKey(r, po[k]) /\ po[k].Ov1 # NaNStr}}

Overrides2For(r) ==
    {po[k].Ov2 : k \in {k \in 1..Len(po) : SameKey(r, po[k]) /\ po[k].Ov2 # NaNStr}}

\* C10 (as claimed): a record with a PO number comes out with category_1
\* (category_2) equal to the override_1 (override_2) of a PO line of the
\* same (po_number, part_number) that carries one, and with its derived
\* category when no such line carries one.  Stated for PO tables whose
\* override columns are text columns.
C10_OverrideSubstitution ==
    (pc = "pp_done" /\ po_dtype.Ov1 = "object" /\ po_dtype.Ov2 = "object") =>
        \A i \in 1..Len(Derived) :
            HasNum(Derived[i]) =>
                /\ \E j \in 1..Len(table) : SameButCategories(table[j], Derived[i])
                /\ \A j \in 1..Len(table) :
                       SameButCategories(table[j], Derived[i]) =>
                           /\ IF Overrides1For(Derived[i]) # {}
                              THEN table[j].Category1 \in Overrides1For(Derived[i])
                              ELSE table[j].Category1 = Derived[i].Category1
                           /\ IF Overrides2For(Derived[i]) # {}
                              THEN table[j].Category2 \in Overrides2For(Derived[i])
                              ELSE table[j].Category2 = Derived[i].Category2

(***************************************************************************)
(* Properties of code_locations (SpecCode).                                *)
(***************************************************************************)
\* The prefix table of the mapper: prefix, station.
PrefixTable ==
    << <<(<<"0", "0", "1">>), "Main Controls">>,
       <<(<<"1">>), "Main Frame">>,
       <<(<<"2">>), "Unwind/Punch Station">>,
       <<(<<"0", "0", "2">>), "Unwind/Punch Station">>,
       <<(<<"3">>), "Spout Station">>,
       <<(<<"0", "0", "3">>), "Spout Station">>,
       <<(<<"0", "0", "7">>), "Spout Station">>,
       <<(<<"4">>), "Side Seal Station">>,
       <<(<<"0", "0", "4">>), "Side Seal Station">>,
       <<(<<"5">>), "Cross Seal Station">>,
       <<(<<"0", "0", "5">>), "Cross Seal Station">>,
       <<(<<"6">>), "Cap Station">>,
       <<(<<"0", "0", "6">>), "Cap Station">>,
       <<(<<"0", "0", "8">>), "Cap Station">>,
       <<(<<"7">>), "Delivery/Cutoff Station">>,
       <<(<<"8">>), "Delivery/Cutoff Station">>,
       <<(<<"0", "0", "9">>), "Delivery/Cutoff Station">> >>

Applicable(c) == {i \in 1..Len(PrefixTable) : StartsWith(c, PrefixTable[i][1])}

ApplicableStations(c) == {PrefixTable[i][2] : i \in Applicable(c)}

LongestApplicable(c) ==
    CHOOSE i \in Applicable(c) :
        \A j \in Applicable(c) : Len(PrefixTable[j][1]) <= Len(PrefixTable[i][1])

\* C11 (as amended): for every non-null location code, at most one station
\* applies (no code starts with prefixes of two different stations); when a
\* table prefix applies, code_locations returns the station of the longest
\* applicable prefix, and when none applies it returns null.
C11_LongestPrefixOrNull ==
    (pc = "coded" /\ loc_code # NaNLoc) =>
        /\ Cardinality(ApplicableStations(loc_code)) <= 1
        /\ IF Applicable(loc_code) = {}
           THEN station = NaNStr
           ELSE station = PrefixTable[LongestApplicable(loc_code)][2]

\* A zero-padded code was mapped.
C11_Witness ==
    /\ pc = "coded"
    /\ loc_code = <<"0", "0", "7">>
    /\ station = "Spout Station"

\* C11 (as stated): for every non-null location code exactly one table
\* mapping applies, and code_locations returns the station of the longest
\* table prefix the code starts with.
C11_ExactlyOneMapping ==
    (pc = "coded" /\ loc_code # NaNLoc) =>
        /\ Cardinality(ApplicableStations(loc_code)) = 1
        /\ Applicable(loc_code) # {}
        /\ station = PrefixTable[LongestApplicable(loc_code)][2]

(***************************************************************************)
(* Properties of process_parts (SpecParts), continued.                     *)
(***************************************************************************)
Rank(p) == CHOOSE i \in 1..Len(PartOrder) : PartOrder[i] = p

Ascending(parts) ==
    \A i, j \in 1..Len(parts) : i < j => Rank(parts[i]) < Rank(parts[j])

\* The same rows in every order.
Perms(rows) ==
    {[i \in 1..Len(rows) |-> rows[f[i]]] :
        f \in {g \in [1..Len(rows) -> 1..Len(rows)] :
                  \A a, b \in 1..Len(rows) : a # b => g[a] # g[b]}}

RecordsOf(frame, line) == SelectSeq(frame, LAMBDA r : r.Source = line.Source)

\* The records of every PO line of the part add up to the line.
LinesAccounted ==
    (pc = "returned" /\ InputLines # <<>>) =>
        \A i \in 1..Len(InputLines) :
            LET line == InputLines[i]
                recs == RecordsOf(final_frame, line)
            IN  /\ SumQty(recs) = line.UnitQty
                /\ \A k \in 1..Len(recs) :
                       /\ recs[k].UnitPrice = line.UnitPrice
                       /\ recs[k].Num = line.Num
                       /\ recs[k].Date = line.Date
                       /\ ~IsNaNQty(recs[k].UnitQty)

\* The PO-linked records / the lines of the part that carry a (Date, Num).
RecordsCarrying(frame, date, num) ==
    SelectSeq(frame, LAMBDA r : HasNum(r) /\ r.Date = date /\ r.Num = num)

LinesCarrying(date, num) ==
    SelectSeq(InputLines, LAMBDA l : l.Date = date /\ l.Num = num)

\* Per (Date, Num): the records carrying it add up to the lines carrying
\* it, and each carries the price of one of these lines.
KeysAccounted ==
    (pc = "returned" /\ InputLines # <<>>) =>
        \A i \in 1..Len(InputLines) :
            LET line == InputLines[i]
                recs == RecordsCarrying(final_frame, line.Date, line.Num)
                lines == LinesCarrying(line.Date, line.Num)
            IN  /\ SumQty(recs) = SumSeq([k \in 1..Len(lines) |-> lines[k].UnitQty])
                /\ \A k \in 1..Len(recs) :
                       \E m \in 1..Len(lines) : recs[k].UnitPrice = lines[m].UnitPrice

\* As stated: the records carrying a line's (Date, Num) add up to that line
\* alone and all carry that line's price.
LinesAccountedByNumDate ==
    (pc = "returned" /\ InputLines # <<>>) =>
        \A i \in 1..Len(InputLines) :
            LET line == InputLines[i]
                recs == RecordsCarrying(final_frame, line.Date, line.Num)
            IN  /\ SumQty(recs) = line.UnitQty
                /\ \A k \in 1..Len(recs) : recs[k].UnitPrice = line.UnitPrice

QueuePositive ==
    \A i \in 1..Len(purchased_frame) : purchased_frame[i].UnitQty > 0

\* One iteration of the walk with a line at the front of the queue.
FrontStep ==
    (pc = "walk" /\ loc_idx' = loc_idx + 1 /\ purchased_frame # <<>>) =>
        LET d == locations.rows[loc_idx].Qty
            front == purchased_frame[1]
        IN  IF IsNaNQty(d) \/ d > front.UnitQty
            THEN purchased_frame' = purchased_frame
            ELSE IF d = front.UnitQty
            THEN purchased_frame' = Tail(purchased_frame)
            ELSE /\ Len(purchased_frame') = Len(purchased_frame)
                 /\ Tail(purchased_frame') = Tail(purchased_frame)
                 /\ purchased_frame'[1].Source = front.Source
                 /\ purchased_frame'[1].UnitPrice = front.UnitPrice
                 /\ purchased_frame'[1].UnitQty = front.UnitQty - d

\* C13 (as amended): for every PO line of the part, the records emitted
\* from that line (located records and its <Extra> record) carry its PO
\* number, date and unit price and their quantities add up to exactly the
\* line's quantity; for every (date, PO number) the records carrying it add
\* up to the lines carrying it, which is one line's quantity when no other
\* line of the part shares its PO number and date; a partial match
\* decrements the front line by the demand and keeps it at the front, an
\* exact match removes it, and a queued line's remaining quantity is always
\* positive.
C13_PerLineAttribution ==
    /\ []LinesAccounted
    /\ []KeysAccounted
    /\ []QueuePositive
    /\ [][FrontStep]_vars

\* C13 (as stated): for every PO line of the part, the records carrying
\* that line's PO number / date have quantities adding up to exactly the
\* line's quantity and all carry that line's unit price; a partial match
\* decrements the front line and keeps it at the front, an exact match
\* removes it, and a queued line's remaining quantity is always positive.
C13_PerLineByNumDate ==
    /\ []LinesAccountedByNumDate
    /\ []QueuePositive
    /\ [][FrontStep]_vars

\* Scenario C: the demands (location 1, quantity 2), (location 2,
\* quantity 3) against one line of quantity 5 and price 10 returned two
\* located records and no <Extra> record.
C13_Witness ==
    /\ pc = "returned"
    /\ po = <<PORow(1, TargetPart, <<1, 1>>, 5, NaNStr, NaNStr)>>
    /\ Len(final_frame) = 2
    /\ final_frame[1].Location = <<"1">> /\ final_frame[1].UnitQty = 2
    /\ final_frame[1].UnitPrice = 10
    /\ final_frame[2].Location = <<"2">> /\ final_frame[2].UnitQty = 3
    /\ final_frame[2].UnitPrice = 10
    /\ purchased_frame = <<>>

(***************************************************************************)
(* Properties of process_parts (SpecParts): coverage.                      *)
(***************************************************************************)
Represented(line, frame) ==
    \E j \in 1..Len(frame) :
        /\ frame[j].Part = line.Part
        /\ frame[j].Num = line.Num
        /\ frame[j].Source = line.Source

\* C14: process_parts runs a pass for every unique part number of the PO
\* lines and the BOM, so every PO line, whatever its part number (the
\* machined form GF12.ddd.dd included), has records in the table.
C14_EveryPOLineRepresented ==
    pc \in {"pp_override", "pp_done"} =>
        /\ Len(other_frames) = Len(get_unique_parts(po, machined, purchased))
        /\ \A i \in 1..Len(po) : Represented(po[i], table)

(***************************************************************************)
(* Properties of apply_overrides (SpecParts): the frame.                   *)
(***************************************************************************)
LinkedDerived == SelectSeq(Derived, HasNum)

\* C15: apply_overrides returns exactly one record per input record with a
\* PO number, in the same order and with every field but the categories
\* unchanged, also when several PO lines share (Num, Part Number) and each
\* carries an override; so the total quantity of the PO-linked records is
\* the same before and after.
C15_OverridesKeepRecords ==
    pc = "pp_done" =>
        /\ Len(table) = Len(LinkedDerived)
        /\ \A i \in 1..Len(LinkedDerived) :
               i <= Len(table) /\ SameButCategories(table[i], LinkedDerived[i])
        /\ SumQty(table) = SumQty(LinkedDerived)

=============================================================================
